---- MODULE Spec2Model ----
(***************************************************************************)
(* GaussianMixtureCEM (src/src/model/GaussianMixtureCEM.py): the causal EM *)
(* fit loop and the prediction routine, for one predictor column (p = 1)   *)
(* and k = 4.                                                              *)
(*                                                                         *)
(* Numbers are exact rationals extended with the IEEE special values the   *)
(* numpy code produces (x/0 = inf, 0/0 = NaN, NaN propagates); rounding is *)
(* not modelled.  scipy's mvn.pdf is outside the repository: its value on  *)
(* the covariate values is a table the environment chooses whenever mus    *)
(* and sigma are assigned, and it raises ValueError on a covariance that   *)
(* is not finite (scipy validates the covariance with check_finite).       *)
(***************************************************************************)
EXTENDS Integers, Sequences, FiniteSets, TLC

\* ------------------------------------------------------------------ bounds
MaxN == 2          \* subjects of a training table
MaxIter == 3       \* largest construction-time max_iter
MaxFits == 2       \* calls of fit on one instance
MaxRows == 1       \* rows of a table given to predict
MaxPredicts == 2   \* calls of predict on one table

Class == 0..3      \* 0 responder, 1 doomed, 2 survivor, 3 anti-responder
XVals == {0, 1}    \* values of the predictor column
EpsVals == {0, 1}  \* construction-time epsilonConv
LLFinite == {-1, 0} \* finite log-likelihood values
TimeVals == {1}    \* elapsed wall time of a call

\* ------------------------------------------------- extended rationals
\* <<n, d>> with d > 0 in lowest terms; <<0,0>> NaN; <<1,0>> inf; <<-1,0>> -inf
NaN == <<0, 0>>
PosInf == <<1, 0>>
NegInf == <<-1, 0>>

Abs(a) == IF a < 0 THEN -a ELSE a

RECURSIVE Gcd(_, _)
Gcd(a, b) == IF b = 0 THEN a ELSE Gcd(b, a % b)

Sgn(a) == IF a > 0 THEN 1 ELSE IF a < 0 THEN -1 ELSE 0

Rat(n, d) ==
    IF d = 0 THEN <<Sgn(n), 0>>
    ELSE LET g == Gcd(Abs(n), Abs(d))
             s == IF d < 0 THEN -1 ELSE 1
         IN  <<(s * n) \div g, (s * d) \div g>>

R(n) == <<n, 1>>
Zero == R(0)
One == R(1)

IsNaN(a) == a = NaN
IsInf(a) == a[2] = 0 /\ a[1] # 0
IsFinite(a) == a[2] # 0

Add(a, b) ==
    IF IsNaN(a) \/ IsNaN(b) THEN NaN
    ELSE IF IsInf(a) /\ IsInf(b) THEN (IF a = b THEN a ELSE NaN)
    ELSE IF IsInf(a) THEN a
    ELSE IF IsInf(b) THEN b
    ELSE LET g == Gcd(a[2], b[2])
         IN  Rat(a[1] * (b[2] \div g) + b[1] * (a[2] \div g), (a[2] \div g) * b[2])

Neg(a) == <<-a[1], a[2]>>
Sub(a, b) == Add(a, Neg(b))

Mul(a, b) ==
    IF IsNaN(a) \/ IsNaN(b) THEN NaN
    ELSE IF IsInf(a) \/ IsInf(b)
         THEN <<Sgn(a[1]) * Sgn(b[1]), 0>>
    ELSE LET g == Gcd(Abs(a[1]), b[2])
             h == Gcd(Abs(b[1]), a[2])
         IN  Rat((a[1] \div g) * (b[1] \div h), (a[2] \div h) * (b[2] \div g))

\* numpy division: x/0 is +-inf, 0/0 is NaN, finite/inf is 0
Div(a, b) ==
    IF IsNaN(a) \/ IsNaN(b) THEN NaN
    ELSE IF IsInf(b) THEN (IF IsInf(a) THEN NaN ELSE Zero)
    ELSE IF IsInf(a) THEN <<Sgn(a[1]) * (IF b[1] < 0 THEN -1 ELSE 1), 0>>
    ELSE IF b[1] = 0 THEN <<Sgn(a[1]), 0>>
    ELSE Mul(a, Rat(b[2], b[1]))

\* a < b on floats: False as soon as one side is NaN
Less(a, b) ==
    IF IsNaN(a) \/ IsNaN(b) THEN FALSE
    ELSE IF IsInf(a) \/ IsInf(b)
         THEN (IF a = b THEN FALSE
               ELSE IF a = NegInf \/ b = PosInf THEN TRUE ELSE FALSE)
    ELSE a[1] * b[2] < b[1] * a[2]

AbsR(a) == <<Abs(a[1]), a[2]>>

RECURSIVE SumTo(_, _)
\* f[1] + ... + f[n], left to right as Python's sum
SumTo(f, n) == IF n = 0 THEN Zero ELSE Add(SumTo(f, n - 1), f[n])

Half == Rat(1, 2)
Regularizer == Rat(1, 100)

\* ------------------------------------------------------------------ tables
\* A training table: rows of (x, treatment, outcome) and the columns it has.
Rows == [x : XVals, treatment : {0, 1}, outcome : {0, 1}]

RowSeqs(n) == UNION {[1..m -> Rows] : m \in 1..n}

AllCols == {"x", "treatment", "outcome"}
ColSets == {AllCols} \cup {AllCols \ {c} : c \in AllCols}

\* The tables fit is called on.  A column the table lacks is written 0 in every
\* row; the rows are in one order (by treatment, outcome, x), the fit of a table
\* being that of its rows permuted.
RowKey(r) == 4 * r.treatment + 2 * r.outcome + r.x
FitData ==
    {d \in [rows : RowSeqs(MaxN), cols : ColSets] :
        /\ \A i \in DOMAIN d.rows : \A c \in AllCols \ d.cols : d.rows[i][c] = 0
        /\ \A i \in DOMAIN d.rows : i = 1 \/ RowKey(d.rows[i - 1]) <= RowKey(d.rows[i])}

\* the training tables of an instance that is fitted again
SmallData == {d \in FitData : Len(d.rows) <= 2}

\* the training tables of the prediction runs: every class gets some weight
TrainSets ==
    {d \in FitData :
        /\ d.cols = AllCols
        /\ Len(d.rows) = 2
        /\ d.rows[1].treatment = d.rows[2].treatment
        /\ d.rows[1].outcome = 0 /\ d.rows[1].x = 0
        /\ d.rows[2].outcome = 1 /\ d.rows[2].x = 1}

\* a table given to predict: each row a function of the column names
PredictColSets == {{"x"} \cup S : S \in SUBSET {"treatment", "outcome0predict"}}
PredictTables ==
    UNION {[rows : UNION {[1..m -> [C -> {0, 1}]] : m \in 1..MaxRows}, cols : {C}] :
              C \in PredictColSets}
PredictorNames == {"x", "outcome0predict"}

NoData == [rows |-> <<>>, cols |-> {}]

\* mvn.pdf(., mus[j], sigma[j]) on the covariate values: 0 is an underflow.
\* Tab(S, v, d): density d at covariate v for the classes of S, 1 elsewhere.
Tab(S, v, d) == [j \in Class |-> [x \in XVals |-> IF j \in S /\ x = v THEN d ELSE 1]]

PdfTables == {Tab({j}, 0, 2) : j \in Class} \cup {Tab(Class, 1, 0), Tab({1, 3}, 1, 0)}

NoPdf == [x \in XVals |-> 0]

\* ------------------------------------------------------------------ state
VARIABLES
    max_iter, epsilonConv,          \* hyperparameters (__init__)
    pis, mus, sigma,                \* mixture parameters
    mvnPdf,                         \* x |-> mvn.pdf(x, mus[j], sigma[j]), per class j
    logLikelihoods, numIters, time,
    proportionTreatment, proportionControl,
    pc,                             \* position of the running fit call
    data,                           \* the table of the current/last fit call
    t, tDistrib,                    \* fit's locals
    raised,                         \* the exception the current/last fit call ended with
    iters,                          \* loop bodies entered by the current/last fit call
    pdfRan,                         \* mvn.pdf was called by the current/last fit call
    pre,                            \* the model fields when the current/last fit call began
    fitsLeft,                       \* calls of fit the caller still makes
    corpus,                         \* which training tables the caller has
    table, predictors,              \* predict's arguments (the table is annotated in place)
    before,                         \* the table as it was when the last predict began
    pcalls,                         \* calls of predict on this table so far
    predictRaised                   \* the exception the last predict call ended with

fields == <<pis, mus, sigma, mvnPdf, logLikelihoods, numIters, time,
            proportionTreatment, proportionControl>>
vars == <<max_iter, epsilonConv, pis, mus, sigma, mvnPdf, logLikelihoods, numIters,
          time, proportionTreatment, proportionControl, pc, data, t, tDistrib,
          raised, iters, pdfRan, pre, fitsLeft, corpus, table, predictors, before, pcalls,
          predictRaised>>

env == <<max_iter, epsilonConv, corpus>>
ptab == <<table, predictors, before, pcalls, predictRaised>>

NoTable == [rows |-> <<>>, cols |-> {}]

\* __init__: a fresh instance
Fresh ==
    /\ pis = [j \in Class |-> Zero]
    /\ mus = <<>>
    /\ sigma = <<>>
    /\ mvnPdf = <<>>
    /\ logLikelihoods = <<>>
    /\ numIters = 0
    /\ time = 0
    /\ proportionTreatment = Zero
    /\ proportionControl = Zero
    /\ pc = "idle"
    /\ data = NoData
    /\ t = <<>>
    /\ tDistrib = <<>>
    /\ raised = "none"
    /\ iters = 0
    /\ pdfRan = FALSE
    /\ pre = fields
    /\ table = NoTable
    /\ predictors = "x"
    /\ before = NoTable
    /\ pcalls = 0
    /\ predictRaised = "none"

\* one call of fit on a fresh instance
Init ==
    /\ max_iter \in 0..MaxIter
    /\ epsilonConv \in EpsVals
    /\ corpus = "all"
    /\ fitsLeft = 1
    /\ Fresh

\* an instance that is fitted again (fit, or GridSearchCV, after fit)
InitRefit ==
    /\ max_iter \in 2..MaxIter
    /\ epsilonConv \in EpsVals
    /\ corpus = "small"
    /\ fitsLeft = MaxFits
    /\ Fresh

\* an instance that is fitted once and then used to predict
InitPredict ==
    /\ max_iter \in 1..2
    /\ epsilonConv = 1
    /\ corpus = "train"
    /\ fitsLeft = 1
    /\ Fresh

\* ------------------------------------------------------------------ fit
\* while len(self.logLikelihoods) < self.max_iter
WhileCond(lls) == Len(lls) < max_iter

\* the exit of a call by an exception: the locals are gone, the fields stay
Raise(e) ==
    /\ pc' = "idle"
    /\ raised' = e
    /\ t' = <<>>
    /\ tDistrib' = <<>>
    /\ UNCHANGED data

\* lines 41-49: the locals, then the first test of the loop condition
FitCall(d) ==
    /\ pc = "idle"
    /\ fitsLeft > 0
    /\ fitsLeft' = fitsLeft - 1
    /\ pre' = fields
    /\ iters' = 0
    /\ pdfRan' = FALSE
    /\ UNCHANGED <<env, fields, ptab>>
    /\ IF "x" \notin d.cols
       THEN \* data[predictors] raises KeyError
            /\ pc' = "idle"
            /\ raised' = "KeyError"
            /\ data' = d
            /\ t' = <<>>
            /\ tDistrib' = <<>>
       ELSE /\ data' = d
            /\ t' = [i \in 1..Len(d.rows) |-> [j \in Class |-> One]]
            /\ tDistrib' = [i \in 1..Len(d.rows) |-> [j \in Class |-> Half]]
            /\ raised' = "none"
            /\ pc' = IF WhileCond(logLikelihoods) THEN "estep" ELSE "post"

\* MaskRow with the (1, 0) cell zeroing class 3 where it should zero class 2
MaskRowWrongIndex(td, T, Y) ==
    IF T = 0
    THEN IF Y = 0
         THEN [j \in Class |-> IF j \in {0, 1} THEN td[j] ELSE Zero]
         ELSE [j \in Class |-> IF j \in {2, 3} THEN td[j] ELSE Zero]
    ELSE IF Y = 0
         THEN [j \in Class |-> IF j \in {1, 2} THEN td[j] ELSE Zero]
         ELSE [j \in Class |-> IF j \in {0, 2} THEN td[j] ELSE Zero]

\* lines 63-91: the causality constraints on one subject's row
MaskRow(td, T, Y) ==
    IF T = 0
    THEN IF Y = 0
         THEN [j \in Class |-> IF j \in {0, 1} THEN td[j] ELSE Zero]
         ELSE [j \in Class |-> IF j \in {2, 3} THEN td[j] ELSE Zero]
    ELSE IF Y = 0
         THEN [j \in Class |-> IF j \in {1, 3} THEN td[j] ELSE Zero]
         ELSE [j \in Class |-> IF j \in {0, 2} THEN td[j] ELSE Zero]

RowSum(r) == Add(Add(Add(r[0], r[1]), r[2]), r[3])

\* line 93: t = (t.T / np.sum(t, axis=1)).T, on the whole matrix
Normalize(m) == [i \in DOMAIN m |-> [j \in Class |-> Div(m[i][j], RowSum(m[i]))]]

RECURSIVE CausalLoop(_, _, _, _)
\* lines 61-93 for subjects 1..i: mask row i, then normalize every row
CausalLoop(m, td, rows, i) ==
    IF i = 0 THEN m
    ELSE LET prev == CausalLoop(m, td, rows, i - 1)
         IN  Normalize([prev EXCEPT ![i] = MaskRow(td[i], rows[i].treatment, rows[i].outcome)])

\* lines 56-58: tDistrib[:, j] = pis[j] * mvn.pdf(data[predictors], mus[j], sigma[j])
Densities(rows) ==
    [i \in 1..Len(rows) |-> [j \in Class |-> Mul(pis[j], R(mvnPdf[j][rows[i].x]))]]

\* mvn.pdf raises ValueError on a covariance with NaN or inf
PdfRaises == \E j \in Class : ~IsFinite(sigma[j])

\* lines 55-93
EStep ==
    /\ pc = "estep"
    /\ iters' = iters + 1
    /\ UNCHANGED <<env, fields, pre, fitsLeft, ptab>>
    /\ LET first == Len(logLikelihoods) = 0
           td == IF first THEN tDistrib ELSE Densities(data.rows)
       IN  /\ pdfRan' = (pdfRan \/ ~first)
           /\ IF ~first /\ PdfRaises
              THEN Raise("ValueError")
              ELSE IF {"treatment", "outcome"} \subseteq data.cols
              THEN /\ tDistrib' = td
                   /\ t' = CausalLoop(t, td, data.rows, Len(data.rows))
                   /\ pc' = "mstep"
                   /\ UNCHANGED <<data, raised>>
              ELSE Raise("KeyError")

\* sum(t[:, j])
ColSum(m, j) == SumTo([i \in DOMAIN m |-> m[i][j]], Len(m))

\* NewPis dividing by the number of classes where it should divide by n
NewPisOverClasses(m) == [j \in Class |-> Div(ColSum(m, j), R(4))]

\* lines 100-101: self.pis[j] = sum(t[:, j])/n
NewPis(m) == [j \in Class |-> Div(ColSum(m, j), R(Len(m)))]

\* What the model keeps of a mean or a covariance: NaN, inf and -inf as they
\* are, and One for every finite value (mvn.pdf's values are the environment's,
\* so only whether it raises depends on them).
Fin(a) == IF IsFinite(a) THEN One ELSE a

\* lines 104-106: np.dot(t.transpose(), data[predictors]), each row over sum(t[:, j])
NewMus(m, rows) ==
    [j \in Class |->
        Fin(Div(SumTo([i \in DOMAIN m |-> Mul(m[i][j], R(rows[i].x))], Len(m)),
                ColSum(m, j)))]

\* lines 109-114: the weighted covariance of the centered column, plus 10**(-2)
NewSigma(m, rows, mu) ==
    [j \in Class |->
        LET xCentered == [i \in DOMAIN m |-> Sub(R(rows[i].x), mu[j])]
            dot == SumTo([i \in DOMAIN m |-> Mul(Mul(xCentered[i], m[i][j]), xCentered[i])],
                         Len(m))
        IN  Fin(Add(Mul(Div(One, ColSum(m, j)), dot), Regularizer))]

\* lines 99-114; the densities of the new Gaussians are the environment's
MStep ==
    /\ pc = "mstep"
    /\ pis' = NewPis(t)
    /\ mus' = NewMus(t, data.rows)
    /\ sigma' = NewSigma(t, data.rows, mus')
    /\ \E tab \in PdfTables :
          mvnPdf' = [j \in Class |-> IF IsFinite(sigma'[j]) THEN tab[j] ELSE NoPdf]
    /\ pc' = "loglik"
    /\ UNCHANGED <<env, logLikelihoods, numIters, time,
                   proportionTreatment, proportionControl, data, t, tDistrib, raised,
                   iters, pdfRan, pre, fitsLeft, ptab>>

\* np.log of a density: log(0) = -inf, a positive finite one has a finite log
\* (Zero stands for any finite value here)
LogOf(a) ==
    IF IsNaN(a) \/ Less(a, Zero) THEN NaN
    ELSE IF a = Zero THEN NegInf
    ELSE IF a = PosInf THEN PosInf
    ELSE Zero

\* lines 125-127 up to the finite value: NaN, inf, -inf, or Zero for "finite"
LogLikKind(m, rows) ==
    SumTo([i \in DOMAIN m |->
              RowSum([j \in Class |->
                  Mul(m[i][j], LogOf(Mul(pis[j], R(mvnPdf[j][rows[i].x]))))])],
          Len(m))

\* Converged without the test that the previous value is not 0
ConvergedNoZeroGuard(lls, eps) ==
    Less(AbsR(Sub(lls[Len(lls)], lls[Len(lls) - 1])), eps)

\* line 133
Converged(lls, eps) ==
    /\ lls[Len(lls) - 1] # Zero
    /\ Less(AbsR(Sub(lls[Len(lls)], lls[Len(lls) - 1])), eps)

\* lines 129-134 and the loop condition of line 49: does the loop go on?
LoopsAgain(lls, eps) ==
    IF Len(lls) < 2 THEN WhileCond(lls)
    ELSE IF Converged(lls, eps) THEN FALSE
    ELSE WhileCond(lls)

\* lines 121-134
LogLik ==
    /\ pc = "loglik"
    /\ UNCHANGED <<env, pis, mus, sigma, mvnPdf, numIters, time,
                   proportionTreatment, proportionControl, iters, pre, fitsLeft, ptab>>
    /\ pdfRan' = TRUE
    /\ IF PdfRaises
       THEN Raise("ValueError") /\ UNCHANGED logLikelihoods
       ELSE /\ LET kind == LogLikKind(t, data.rows)
               IN  IF kind = Zero
                   THEN \E v \in LLFinite : logLikelihoods' = Append(logLikelihoods, R(v))
                   ELSE logLikelihoods' = Append(logLikelihoods, kind)
            /\ pc' = IF LoopsAgain(logLikelihoods', R(epsilonConv)) THEN "estep" ELSE "post"
            /\ UNCHANGED <<data, t, tDistrib, raised>>

Count(rows, T, Y) ==
    Cardinality({i \in DOMAIN rows : rows[i].treatment = T /\ (Y = 2 \/ rows[i].outcome = Y)})

\* lines 141-149
PostLoop ==
    /\ pc = "post"
    /\ UNCHANGED <<env, pis, mus, sigma, mvnPdf, logLikelihoods,
                   iters, pdfRan, pre, fitsLeft, ptab>>
    /\ IF {"treatment", "outcome"} \subseteq data.cols
       THEN /\ proportionTreatment' =
                   Div(R(Count(data.rows, 1, 1)), R(Count(data.rows, 1, 2)))
            /\ proportionControl' =
                   Div(R(Count(data.rows, 0, 1)), R(Count(data.rows, 0, 2)))
            /\ \E e \in TimeVals : time' = e
            /\ numIters' = Len(logLikelihoods)
            /\ pc' = "idle"
            /\ t' = <<>>
            /\ tDistrib' = <<>>
            /\ UNCHANGED <<data, raised>>
       ELSE /\ Raise("KeyError")
            /\ UNCHANGED <<proportionTreatment, proportionControl, time, numIters>>

\* GridSearchCV (lines 211-212) is fit
Corpus ==
    IF corpus = "all" THEN FitData
    ELSE IF corpus = "small" THEN SmallData
    ELSE TrainSets

Fit == pc = "idle" /\ fitsLeft > 0 /\ \E d \in Corpus : FitCall(d)

\* ------------------------------------------------------------------ predict
TypeName == [j \in Class |-> <<"responder", "doomed", "survivor", "anti-responder">>[j + 1]]
ZName == [j \in Class |-> <<"z0", "z1", "z2", "z3">>[j + 1]]

\* data[c] = v on one row: the column is added, or overwritten
Set(row, c, v) == (c :> v) @@ row

\* data.loc[mask, c] = v on one row
SetWhere(row, mask, c, v) == IF mask THEN Set(row, c, v) ELSE row

\* lines 164-167: pis[j] * mvn.pdf(data[predictors], mus[j], sigma[j]), rows normalized
Posterior(tb, p) ==
    Normalize([i \in DOMAIN tb.rows |->
                  [j \in Class |-> Mul(pis[j], R(mvnPdf[j][tb.rows[i][p]]))]])

\* np.argmax: the first NaN if there is one, else the first maximum
ArgMax(r) ==
    IF \E j \in Class : IsNaN(r[j])
    THEN CHOOSE j \in Class : IsNaN(r[j]) /\ \A k \in 0..(j - 1) : ~IsNaN(r[k])
    ELSE CHOOSE j \in Class :
            /\ \A k \in Class : ~Less(r[j], r[k])
            /\ \A k \in 0..(j - 1) : Less(r[k], r[j])

\* line 172
Ite(r) ==
    Mul(R(2), Sub(Mul(proportionTreatment, Add(r[0], r[2])),
                  Mul(proportionControl, Add(r[2], r[3]))))

\* lines 179-185, on one row with posterior r; g is the row's data['groupe']
WithType(row, r) ==
    LET g == ArgMax(r)
        e == Set(Set(row, "groupe", g), "typePredict", "")
        a == SetWhere(e, g = 0, "typePredict", "responder")
        b == SetWhere(a, g = 1, "typePredict", "doomed")
        c == SetWhere(b, g = 2, "typePredict", "survivor")
    IN  SetWhere(c, g = 3, "typePredict", "anti-responder")

RECURSIVE WithZAccumulating(_, _, _)
\* WithZ adding the posterior to a z column the table already has
WithZAccumulating(row, r, j) ==
    IF j < 0 THEN row
    ELSE Set(WithZAccumulating(row, r, j - 1), ZName[j],
             IF ZName[j] \in DOMAIN row THEN Add(row[ZName[j]], r[j]) ELSE r[j])

RECURSIVE WithZ(_, _, _)
\* lines 188-189 for the classes 0..j
WithZ(row, r, j) ==
    IF j < 0 THEN row ELSE Set(WithZ(row, r, j - 1), ZName[j], r[j])

\* WithOutcome giving the anti-responder outcome 1 under treatment, not under control
WithOutcomeWrongArm(row) ==
    LET z == Set(row, "outcomePredict", 0)
        a == SetWhere(z, row["typePredict"] = "responder" /\ row["treatment"] = 1,
                      "outcomePredict", 1)
        b == SetWhere(a, row["typePredict"] = "survivor", "outcomePredict", 1)
    IN  SetWhere(b, row["typePredict"] = "anti-responder" /\ row["treatment"] = 1,
                 "outcomePredict", 1)

\* lines 193-198 (they leave typePredict and treatment as they are in row)
WithOutcome(row) ==
    LET z == Set(row, "outcomePredict", 0)
        a == SetWhere(z, row["typePredict"] = "responder" /\ row["treatment"] = 1,
                      "outcomePredict", 1)
        b == SetWhere(a, row["typePredict"] = "survivor", "outcomePredict", 1)
    IN  SetWhere(b, row["typePredict"] = "anti-responder" /\ row["treatment"] = 0,
                 "outcomePredict", 1)

\* WithCounterfactuals giving the anti-responder outcome 1 in the treated arm
WithCounterfactualsWrongArm(row) ==
    LET o == Set(Set(row, "outcome1predict", 0), "outcome0predict", 0)
        a == SetWhere(o, row["typePredict"] = "responder", "outcome1predict", 1)
        b == SetWhere(a, row["typePredict"] = "survivor", "outcome1predict", 1)
        c == SetWhere(b, row["typePredict"] = "survivor", "outcome0predict", 1)
    IN  SetWhere(c, row["typePredict"] = "anti-responder", "outcome1predict", 1)

\* lines 200-206 (they leave typePredict as it is in row)
WithCounterfactuals(row) ==
    LET o == Set(Set(row, "outcome1predict", 0), "outcome0predict", 0)
        a == SetWhere(o, row["typePredict"] = "responder", "outcome1predict", 1)
        b == SetWhere(a, row["typePredict"] = "survivor", "outcome1predict", 1)
        c == SetWhere(b, row["typePredict"] = "survivor", "outcome0predict", 1)
    IN  SetWhere(c, row["typePredict"] = "anti-responder", "outcome0predict", 1)

\* the one element of a singleton
Only(S) == CHOOSE v \in S : TRUE

\* lines 172-206 on one row with posterior r (the assignments are row by row)
AnnotatedRow(row, r) ==
    LET typed == Only({WithZ(WithType(Set(row, "ITE", ite), r), r, 3) : ite \in {Ite(r)}})
    IN  IF "treatment" \in DOMAIN row
        THEN Only({WithCounterfactuals(o) : o \in {WithOutcome(typed)}})
        ELSE typed

OutputCols ==
    {"ITE", "groupe", "typePredict", "z0", "z1", "z2", "z3"}
OutcomeCols == {"outcomePredict", "outcome1predict", "outcome0predict"}

\* lines 160-206 on a table the call does not raise on
Annotated(tb, p) ==
    [rows |-> [i \in DOMAIN tb.rows |->
                  Only({AnnotatedRow(tb.rows[i], r) : r \in {Posterior(tb, p)[i]}})],
     cols |-> tb.cols \cup OutputCols
              \cup (IF "treatment" \in tb.cols THEN OutcomeCols ELSE {})]

\* what predict raises on: a missing predictor column (line 160), self.mus[j] of
\* an instance that was never fitted, mvn.pdf on a covariance that is not finite
PredictError(tb, p) ==
    IF p \notin tb.cols THEN "KeyError"
    ELSE IF DOMAIN mus = {} THEN "IndexError"
    ELSE IF PdfRaises THEN "ValueError"
    ELSE "none"

\* predict (lines 151-206); predict_map (lines 208-209) is predict
PredictCall(tb, p) ==
    /\ pc = "idle"
    /\ before' = tb
    /\ predictors' = p
    /\ predictRaised' = PredictError(tb, p)
    /\ table' = IF PredictError(tb, p) = "none" THEN Annotated(tb, p) ELSE tb
    /\ UNCHANGED <<env, fields, pc, data, t, tDistrib, raised, iters, pdfRan, pre, fitsLeft>>

\* predict on a table of the caller's, once the caller's fits are made
Predict ==
    /\ pcalls = 0
    /\ fitsLeft = 0
    /\ pcalls' = 1
    /\ \E tb \in PredictTables : \E p \in PredictorNames : PredictCall(tb, p)

\* predict once more, on the table the last call annotated, with the same predictors
PredictAgain ==
    /\ pcalls \in 1..(MaxPredicts - 1)
    /\ predictRaised = "none"
    /\ pcalls' = pcalls + 1
    /\ PredictCall(table, predictors)

Next ==
    \/ Fit
    \/ EStep
    \/ MStep
    \/ LogLik
    \/ PostLoop

NextPredict ==
    \/ Fit
    \/ EStep
    \/ MStep
    \/ LogLik
    \/ PostLoop
    \/ Predict
    \/ PredictAgain

Spec == Init /\ [][Next]_vars

SpecRefit == InitRefit /\ [][Next]_vars

SpecPredict == InitPredict /\ [][NextPredict]_vars

\* ------------------------------------------------------------------ claims
\* the masking rule as the specification tabulates it
RetainedClasses(T, Y) ==
    IF T = 0 /\ Y = 0 THEN {0, 1}
    ELSE IF T = 0 /\ Y = 1 THEN {2, 3}
    ELSE IF T = 1 /\ Y = 0 THEN {1, 3}
    ELSE {0, 2}

RetainedOf(i) == RetainedClasses(data.rows[i].treatment, data.rows[i].outcome)

\* the sum of r over the classes of S, in class order
SumOver(r, S) == SumTo([k \in 1..4 |-> IF (k - 1) \in S THEN r[k - 1] ELSE Zero], 4)

\* row i of t is a distribution over exactly the subject's two retained classes
MaskedRow(i) ==
    /\ \A j \in Class \ RetainedOf(i) : t[i][j] = Zero
    /\ SumOver(t[i], RetainedOf(i)) = One

\* the subject's two retained densities are finite, not negative, not both zero
UsableDensities(i) ==
    /\ \A j \in RetainedOf(i) : IsFinite(tDistrib[i][j]) /\ ~Less(tDistrib[i][j], Zero)
    /\ \E j \in RetainedOf(i) : tDistrib[i][j] # Zero

\* a call of fit has ended
FitEnded == pc = "idle" /\ data # NoData

\* C1 as stated: after every E-step every subject's excluded responsibilities are
\* exactly 0 and the two retained ones sum to 1, whatever the densities were.
C1_Original == pc = "mstep" => \A i \in DOMAIN t : MaskedRow(i)

\* C1 amended: after every E-step, every subject whose two retained densities are
\* finite, non-negative and not both zero has its excluded responsibilities exactly
\* 0 and its two retained ones summing to 1.
C1_MaskedRows == pc = "mstep" => \A i \in DOMAIN t : UsableDensities(i) => MaskedRow(i)

\* the case of C1: an E-step on computed densities gave a subject weights 2/3 and 1/3
C1_Witness ==
    /\ pc = "mstep"
    /\ Len(logLikelihoods) >= 1
    /\ \E i \in DOMAIN t :
          /\ UsableDensities(i)
          /\ \E j \in RetainedOf(i) : t[i][j] = Rat(2, 3)

\* C2 as stated: a call of fit that returns has run at least 2 and at most
\* max_iter iterations, whatever state the instance was in.
C2_Original == (FitEnded /\ raised = "none") => (iters >= 2 /\ iters <= max_iter)

\* the difference of two finite values is below eps
Near(a, b, eps) ==
    /\ IsFinite(a)
    /\ IsFinite(b)
    /\ Abs(a[1] * b[2] - b[1] * a[2]) < eps * a[2] * b[2]

\* the exit condition of C3 on a trace
ExitCondition(lls) ==
    \/ Len(lls) = max_iter
    \/ /\ Len(lls) >= 2
       /\ lls[Len(lls) - 1] # Zero
       /\ Near(lls[Len(lls)], lls[Len(lls) - 1], epsilonConv)

\* C3: after an iteration has appended its log-likelihood, the loop exits exactly
\* when the trace length has reached max_iter, or the trace holds at least 2
\* values, the previous one is not 0 and |last - previous| < epsilonConv.
C3_LoopExit ==
    (iters >= 1 /\ pc \in {"estep", "post"}) => (pc = "post" <=> ExitCondition(logLikelihoods))

\* the case of C3: the previous value is exactly 0, the change is below
\* epsilonConv, and the loop goes on
C3_Witness ==
    /\ iters >= 2
    /\ pc = "estep"
    /\ epsilonConv = 1
    /\ logLikelihoods[Len(logLikelihoods)] = Zero
    /\ logLikelihoods[Len(logLikelihoods) - 1] = Zero

\* every subject of the table lies in one (treatment, outcome) cell
SingleCell(rows) ==
    \A i \in DOMAIN rows :
        rows[i].treatment = rows[1].treatment /\ rows[i].outcome = rows[1].outcome

\* C4 as stated: on a table whose subjects lie in one cell, after every M-step the
\* mixing weights of the two classes not retained are 0, and the call ends
\* without raising.
C4_Original ==
    (data # NoData /\ data.cols = AllCols /\ SingleCell(data.rows)) =>
        /\ pc = "loglik" => \A j \in Class \ RetainedOf(1) : pis[j] = Zero
        /\ pc = "idle" => raised = "none"

\* Sums of weights are compared without forming them: n0/d0 + .. + n3/d3 = 1 is
\* n0*d1*d2*d3 + .. + n3*d0*d1*d2 = d0*d1*d2*d3, and two integers below 2^126 in
\* size are equal when they agree modulo each of nine primes whose product is
\* above 2^139 (the primes are below 46341, so a product of two residues is
\* below 2^31).
Primes == {46337, 46327, 46309, 46307, 46301, 46279, 46273, 46271, 46261}

RECURSIVE ProdMod(_, _, _)
\* f[1] * .. * f[n] modulo p
ProdMod(f, n, p) ==
    IF n = 0 THEN 1 ELSE ((ProdMod(f, n - 1, p) % p) * (f[n] % p)) % p

\* the four finite weights of r sum to exactly 1
SumsToOne(r) ==
    /\ \A j \in Class : IsFinite(r[j])
    /\ \A p \in Primes :
          LET term(j) == ProdMod([k \in 1..4 |-> IF k - 1 = j THEN r[j][1] ELSE r[k - 1][2]],
                                 4, p)
          IN  (term(0) + term(1) + term(2) + term(3)) % p
                  = ProdMod([k \in 1..4 |-> r[k - 1][2]], 4, p)

\* C5 as stated: after every M-step the four mixing weights sum to 1.
C5_Original == pc = "loglik" => SumsToOne(pis)

\* C5 amended: after every M-step whose responsibility matrix has no NaN or
\* infinite entry, the four mixing weights sum to 1.
C5_PisSumToOne ==
    (pc = "loglik" /\ \A i \in DOMAIN t : \A j \in Class : IsFinite(t[i][j])) =>
        SumsToOne(pis)

\* the case of C5: an M-step on responsibilities from computed densities, with
\* unequal weights
C5_Witness ==
    /\ pc = "loglik"
    /\ Len(logLikelihoods) >= 1
    /\ \A i \in DOMAIN t : \A j \in Class : IsFinite(t[i][j])
    /\ \E j \in Class : pis[j] \notin {Zero, Rat(1, 4), Half}

\* C6 as stated: a call of fit on a table that lacks a required column ends with
\* an error, no density was evaluated, and every model field is as before the call.
C6_Original ==
    (FitEnded /\ data.cols # AllCols) => (raised # "none" /\ ~pdfRan /\ fields = pre)

\* the value the rule of C7 gives outcomePredict
RuleOutcome(ty, T) ==
    IF (ty = "responder" /\ T = 1) \/ ty = "survivor" \/ (ty = "anti-responder" /\ T = 0)
    THEN 1 ELSE 0

Predicted == pcalls >= 1 /\ predictRaised = "none"

\* C7: with a treatment column, outcomePredict, outcome1predict and outcome0predict
\* follow the rule on typePredict and treatment; without one, none of the three
\* columns is added.
C7_Outcomes ==
    Predicted =>
        IF "treatment" \in before.cols
        THEN \A i \in DOMAIN table.rows :
                LET row == table.rows[i]
                    ty == row["typePredict"]
                IN  /\ row["outcomePredict"] = RuleOutcome(ty, row["treatment"])
                    /\ row["outcome1predict"] =
                           (IF ty \in {"responder", "survivor"} THEN 1 ELSE 0)
                    /\ row["outcome0predict"] =
                           (IF ty \in {"survivor", "anti-responder"} THEN 1 ELSE 0)
        ELSE /\ table.cols \cap OutcomeCols = before.cols \cap OutcomeCols
             /\ \A i \in DOMAIN table.rows :
                   DOMAIN table.rows[i] \cap OutcomeCols = before.cols \cap OutcomeCols

\* the case of C7: a control subject predicted anti-responder gets outcome 1
C7_Witness ==
    /\ Predicted
    /\ "treatment" \in before.cols
    /\ \E i \in DOMAIN table.rows :
          /\ table.rows[i]["typePredict"] = "anti-responder"
          /\ table.rows[i]["treatment"] = 0
          /\ table.rows[i]["outcomePredict"] = 1

\* the output columns of the table are as they were before the last call
SameOutputs ==
    \A i \in DOMAIN table.rows :
        \A c \in (OutputCols \cup OutcomeCols) \cap table.cols :
            table.rows[i][c] = before.rows[i][c]

\* C8 as stated: a second predict with the same predictors on the annotated table
\* leaves every output column as the first call left it, for any input table.
C8_Original == (pcalls >= 2 /\ predictRaised = "none") => SameOutputs

\* C8 amended: it does when no predictor column is one of predict's own output
\* columns.
C8_Idempotent ==
    (pcalls >= 2 /\ predictRaised = "none" /\ predictors \notin (OutputCols \cup OutcomeCols))
        => SameOutputs

\* the case of C8: a second call on an annotated table with a treatment column
\* and a subject predicted with unequal posteriors
C8_Witness ==
    /\ pcalls >= 2
    /\ predictRaised = "none"
    /\ predictors = "x"
    /\ "treatment" \in table.cols
    /\ \E i \in DOMAIN table.rows : table.rows[i]["z0"] = Rat(2, 5)

\* C9 as stated: the first E-step of every call of fit evaluates no density and
\* gives every subject 0.5 on each retained class and 0 on the other two.
C9_Original ==
    (pc = "mstep" /\ iters = 1) =>
        /\ ~pdfRan
        /\ \A i \in DOMAIN t :
              t[i] = [j \in Class |-> IF j \in RetainedOf(i) THEN Half ELSE Zero]

\* fit's masking keeps class j in cell (T, Y)
Retains(j, T, Y) == MaskRow([k \in Class |-> One], T, Y)[j] # Zero

\* C10: class j is retained by fit's masking in cell (T, Y) exactly when the
\* outcome predict assigns to type j under arm T is Y; each cell retains two
\* classes and each class is retained in two cells, one per arm.
C10_MaskAgrees ==
    (Predicted /\ "treatment" \in table.cols) =>
        /\ \A i \in DOMAIN table.rows : \A T \in {0, 1} : \A Y \in {0, 1} :
              Retains(table.rows[i]["groupe"], T, Y) <=>
                  (IF T = 1 THEN table.rows[i]["outcome1predict"]
                            ELSE table.rows[i]["outcome0predict"]) = Y
        /\ \A T \in {0, 1} : \A Y \in {0, 1} :
              Cardinality({j \in Class : Retains(j, T, Y)}) = 2
        /\ \A j \in Class : \A T \in {0, 1} :
              Cardinality({Y \in {0, 1} : Retains(j, T, Y)}) = 1

\* the case of C10: a subject predicted doomed, retained with outcome 0 in both arms
C10_Witness ==
    /\ Predicted
    /\ "treatment" \in table.cols
    /\ \E i \in DOMAIN table.rows : table.rows[i]["groupe"] = 1
====
